---------------------------- MODULE Spec2Model ----------------------------
(***************************************************************************)
(* Model of src/main.py: an in-memory description of C++ members, methods, *)
(* structs, classes and a header/source file pair, rendered to text.       *)
(*                                                                         *)
(* Text is modelled by TLA+ strings built with \o exactly as the f-strings *)
(* and str.join calls of the source build it.  camel_to_snake_case works   *)
(* on single characters, so its argument and result are sequences of       *)
(* one-character strings; Str flattens such a sequence to a string.        *)
(*                                                                         *)
(* Python objects that are shared by reference are kept in heaps           *)
(* (sequences indexed by object identity): the qualifier lists (qlists),   *)
(* the CppStruct objects (structs) and the CppClass objects (classes).     *)
(* qlists[DefaultQualifiers] is the single list object that the default    *)
(* argument `qualifiers = []` of CppMethod.__init__ evaluates to, once,    *)
(* when the function is defined.                                           *)
(***************************************************************************)
EXTENDS Naturals, Sequences, FiniteSets

VARIABLES
    camel_str,      \* argument of the camel_to_snake_case call under way
    snake_str,      \* its result (<<>> until the call has returned)
    returned,       \* TRUE once camel_to_snake_case has returned
    qlists,         \* heap of qualifier list objects
    structs,        \* heap of CppStruct objects
    classes,        \* heap of CppClass objects
    file,           \* the CppHeaderAndSource object
    header_out,     \* text the last of these generate_header_content calls returned
    source_out,     \* text the last of these generate_source_content calls returned
    header_calls,   \* generate_header_content calls since the last add or append
    source_calls    \* generate_source_content calls since the last add or append

vars == <<camel_str, snake_str, returned, qlists, structs, classes, file,
          header_out, source_out, header_calls, source_calls>>

graph == <<qlists, structs, classes, file>>

-----------------------------------------------------------------------------
(* Bounds of the model *)

MaxLen == 4         \* longest identifier drawn for camel_to_snake_case
MaxMethods == 3     \* methods per class or struct
MaxMembers == 1     \* members per class or struct
MaxQuals == 2       \* tokens per qualifier list
MaxIncludes == 1    \* entries per includes / extra_header_code list
MaxCalls == 2       \* render calls counted between two add operations

-----------------------------------------------------------------------------
(* Characters *)

UpperChars == <<"A","B","C","D","E","F","G","H","I","J","K","L","M",
                "N","O","P","Q","R","S","T","U","V","W","X","Y","Z">>
LowerChars == <<"a","b","c","d","e","f","g","h","i","j","k","l","m",
                "n","o","p","q","r","s","t","u","v","w","x","y","z">>
DigitChars == {"0","1","2","3","4","5","6","7","8","9"}

IsUpper(c) == \E i \in DOMAIN UpperChars : UpperChars[i] = c
IsLower(c) == \E i \in DOMAIN LowerChars : LowerChars[i] = c
IsDigit(c) == c \in DigitChars

\* str.lower() and str.upper() on one character
lower(c) == IF IsUpper(c)
            THEN LowerChars[CHOOSE i \in DOMAIN UpperChars : UpperChars[i] = c]
            ELSE c
upper(c) == IF IsLower(c)
            THEN UpperChars[CHOOSE i \in DOMAIN LowerChars : LowerChars[i] = c]
            ELSE c

LowerAll(s) == [i \in DOMAIN s |-> lower(s[i])]
UpperAll(s) == [i \in DOMAIN s |-> upper(s[i])]

RECURSIVE Str(_)
Str(s) == IF s = <<>> THEN "" ELSE Head(s) \o Str(Tail(s))

-----------------------------------------------------------------------------
(* camel_to_snake_case, src/main.py 5-34 *)

\* (?<!^)(?=[A-Z]) : not at the start, next character an upper-case letter
BeforeUpper(s, i) == i > 0 /\ i < Len(s) /\ IsUpper(s[i + 1])
\* (?<=\D)(?=\d) : previous character a non-digit, next character a digit
NonDigitDigit(s, i) == i > 0 /\ i < Len(s) /\ ~IsDigit(s[i]) /\ IsDigit(s[i + 1])
\* (?<=\d)(?=\D) : previous character a digit, next character a non-digit
DigitNonDigit(s, i) == i > 0 /\ i < Len(s) /\ IsDigit(s[i]) /\ ~IsDigit(s[i + 1])

Matches(pattern, s, i) ==
    CASE pattern = "BeforeUpper" -> BeforeUpper(s, i)
      [] pattern = "NonDigitDigit" -> NonDigitDigit(s, i)
      [] pattern = "DigitNonDigit" -> DigitNonDigit(s, i)

\* re.sub(pattern, '_', s) for a zero-width pattern: "_" is inserted at every
\* position i (between s[i] and s[i+1], 0 <= i <= Len(s)) where it matches.
RECURSIVE InsertFrom(_, _, _)
InsertFrom(pattern, s, i) ==
    IF i > Len(s) THEN <<>>
    ELSE (IF Matches(pattern, s, i) THEN <<"_">> ELSE <<>>)
         \o (IF i < Len(s) THEN <<s[i + 1]>> ELSE <<>>)
         \o InsertFrom(pattern, s, i + 1)

SubBeforeUpper(s) == InsertFrom("BeforeUpper", s, 0)
\* A mutant of SubNonDigitDigit: the letter-to-digit substitution is left out.
SubNonDigitDigitSkipped(s) == s
SubNonDigitDigit(s) == InsertFrom("NonDigitDigit", s, 0)
SubDigitNonDigit(s) == InsertFrom("DigitNonDigit", s, 0)

\* A mutant of CollapseUnderscores: the collapsing substitution is left out.
CollapseUnderscoresSkipped(s) == s

\* re.sub(r'_{2,}', '_', s): every maximal run of two or more "_" becomes one
RECURSIVE CollapseUnderscores(_)
CollapseUnderscores(s) ==
    IF Len(s) < 2 THEN s
    ELSE IF s[1] = "_" /\ s[2] = "_" THEN CollapseUnderscores(Tail(s))
    ELSE <<s[1]>> \o CollapseUnderscores(Tail(s))

\* s.rstrip('_')
RECURSIVE RStripUnderscores(_)
RStripUnderscores(s) ==
    IF s # <<>> /\ s[Len(s)] = "_"
    THEN RStripUnderscores(SubSeq(s, 1, Len(s) - 1))
    ELSE s

camel_to_snake_case(s) ==
    RStripUnderscores(
        CollapseUnderscores(
            LowerAll(SubDigitNonDigit(SubNonDigitDigit(SubBeforeUpper(s))))))

-----------------------------------------------------------------------------
(* Sequence helpers: str.join, list comprehension, concatenation of texts *)

RECURSIVE Join(_, _)
Join(sep, xs) ==
    IF xs = <<>> THEN ""
    ELSE IF Len(xs) = 1 THEN xs[1]
    ELSE xs[1] \o sep \o Join(sep, Tail(xs))

RECURSIVE Concat(_)
Concat(xs) == IF xs = <<>> THEN "" ELSE Head(xs) \o Concat(Tail(xs))

RECURSIVE Flatten(_)
Flatten(xss) == IF xss = <<>> THEN <<>> ELSE Head(xss) \o Flatten(Tail(xss))

-----------------------------------------------------------------------------
(* CppMember, src/main.py 50-60 *)

CppMember(name, type_name, value) ==
    [name |-> name, type_name |-> type_name, value |-> value]

\* CppMember.__str__
member_str(member) ==
    member.type_name \o " " \o member.name
    \o (IF member.value = "" THEN "" ELSE "= " \o member.value) \o ";"

-----------------------------------------------------------------------------
(* CppMethod, src/main.py 63-95 *)

\* Identity of the list object the default argument `qualifiers = []` denotes.
DefaultQualifiers == 1

\* CppMethod.__init__: every argument is stored as given; `qualifiers` is a
\* reference to a list object of the heap qlists.
CppMethod(name, return_type, parameters, body, access_modifier, initializer_list, define_in_header, qualifiers) ==
    [name |-> name, return_type |-> return_type, parameters |-> parameters,
     body |-> body, access_modifier |-> access_modifier,
     initializer_list |-> initializer_list,
     define_in_header |-> define_in_header, qualifiers |-> qualifiers]

\* self.qualifiers, dereferenced
Qualifiers(method) == qlists[method.qualifiers]

space(method) == IF method.return_type # "" THEN " " ELSE ""

qualifier_str(method) ==
    IF Len(Qualifiers(method)) # 0
    THEN " " \o Join(" ", Qualifiers(method))
    ELSE ""

initializer(method) ==
    IF method.initializer_list # "" THEN " : " \o method.initializer_list ELSE ""

\* CppMethod.declaration
declaration(method) ==
    method.return_type \o space(method) \o method.name
    \o "(" \o method.parameters \o ")" \o qualifier_str(method) \o ";"

\* CppMethod.get_definition
get_definition(method, class_name) ==
    IF method.define_in_header
    THEN method.return_type \o space(method) \o method.name
         \o "(" \o method.parameters \o ")" \o initializer(method)
         \o qualifier_str(method) \o " {\n    " \o method.body \o "\n}"
    ELSE method.return_type \o space(method) \o class_name \o "::" \o method.name
         \o "(" \o method.parameters \o ")" \o initializer(method)
         \o qualifier_str(method) \o " {\n    " \o method.body \o "\n}"

-----------------------------------------------------------------------------
(* Aggregate renderer, src/main.py 100-152 *)

\* The loop of get_public_and_private_methods_for_header from methods[i] on,
\* with the two lists built so far.
RECURSIVE partition_from(_, _, _, _, _)
partition_from(class_name, methods, i, public_methods, private_methods) ==
    IF i > Len(methods) THEN <<public_methods, private_methods>>
    ELSE LET method == methods[i]
             text == IF method.define_in_header
                     THEN get_definition(method, class_name)
                     ELSE declaration(method)
             pub == IF method.access_modifier = "public"
                    THEN Append(public_methods, text)
                    ELSE public_methods
             priv == IF method.access_modifier = "private"
                     THEN Append(private_methods, text)
                     ELSE private_methods
         IN  partition_from(class_name, methods, i + 1, pub, priv)

\* A mutant of get_public_and_private_methods_for_header: the second test
\* repeats the first one, so private methods are never collected.
partition_private_lost(class_name, methods) ==
    <<partition_from(class_name, methods, 1, <<>>, <<>>)[1], <<>>>>

get_public_and_private_methods_for_header(class_name, methods) ==
    partition_from(class_name, methods, 1, <<>>, <<>>)

\* A mutant of generate_header_content_for_class_or_struct: the private
\* methods are emitted before the public ones.
header_content_private_first(is_class, class_or_struct_name, members, methods) ==
    LET members_str == Join("\n    ", [i \in DOMAIN members |-> member_str(members[i])])
        pp == get_public_and_private_methods_for_header(class_or_struct_name, methods)
    IN  (IF is_class THEN "class" ELSE "struct") \o " " \o class_or_struct_name \o " {\n"
        \o "public:\n"
        \o "    " \o members_str \o "\n"
        \o "\n    " \o Join("\n    ", pp[2]) \o "\n"
        \o "\nprivate:\n"
        \o "    " \o Join("\n    ", pp[1]) \o "\n"
        \o "};\n\n"

generate_header_content_for_class_or_struct(is_class, class_or_struct_name, members, methods) ==
    LET members_str == Join("\n    ", [i \in DOMAIN members |-> member_str(members[i])])
        pp == get_public_and_private_methods_for_header(class_or_struct_name, methods)
        public_methods_str == Join("\n    ", pp[1])
        private_methods_str == Join("\n    ", pp[2])
    IN  (IF is_class THEN "class" ELSE "struct") \o " " \o class_or_struct_name \o " {\n"
        \o "public:\n"
        \o "    " \o members_str \o "\n"
        \o "\n    " \o public_methods_str \o "\n"
        \o "\nprivate:\n"
        \o "    " \o private_methods_str \o "\n"
        \o "};\n\n"

NotInHeader(method) == ~method.define_in_header

\* A mutant of generate_source_content_for_class_or_struct: the filter on
\* define_in_header is left out.
source_content_unfiltered(class_or_struct_name, methods) ==
    Join("\n\n", [i \in DOMAIN methods |->
                     get_definition(methods[i], class_or_struct_name)])

generate_source_content_for_class_or_struct(class_or_struct_name, methods) ==
    LET kept == SelectSeq(methods, NotInHeader)
    IN  Join("\n\n", [i \in DOMAIN kept |->
                         get_definition(kept[i], class_or_struct_name)])

-----------------------------------------------------------------------------
(* CppClass and CppStruct, src/main.py 154-225 *)

CppClass(name) == [name |-> name, members |-> <<>>, methods |-> <<>>, includes |-> <<>>]

CppStruct(name) == [name |-> name, members |-> <<>>, methods |-> <<>>]

class_generate_header_content(cls) ==
    generate_header_content_for_class_or_struct(TRUE, cls.name, cls.members, cls.methods)

class_generate_source_content(cls) ==
    generate_source_content_for_class_or_struct(cls.name, cls.methods)

struct_generate_header_content(struct) ==
    generate_header_content_for_class_or_struct(FALSE, struct.name, struct.members, struct.methods)

struct_generate_source_content(struct) ==
    generate_source_content_for_class_or_struct(struct.name, struct.methods)

-----------------------------------------------------------------------------
(* CppHeaderAndSource, src/main.py 227-286 *)

\* file.name is kept as a sequence of characters (camel_to_snake_case reads it)
CppHeaderAndSource(name) ==
    [name |-> name, includes |-> <<>>, extra_header_code |-> <<>>,
     structs |-> <<>>, classes |-> <<>>]

guard_name(f) == Str(UpperAll(camel_to_snake_case(f.name))) \o "_HPP"

\* all_includes when the loop of lines 257-258 is over: a new list, extended
\* by self.includes and then by the includes of every class of self.classes
all_includes(f) ==
    f.includes \o Flatten([i \in DOMAIN f.classes |-> classes[f.classes[i]].includes])

\* A mutant of self_includes_after_header: all_includes is bound to the list
\* self.includes itself instead of a new list, so extending it extends the field.
self_includes_aliased(f) == all_includes(f)

\* self.includes when generate_header_content returns: all_includes is a list
\* of its own and no statement assigns to or mutates a field of self.
self_includes_after_header(f) == f.includes

\* A mutant of file_generate_header_content: the class fragments are emitted
\* where the struct fragments belong, and the struct fragments after the spacer.
header_content_classes_first(f) ==
    "#ifndef " \o guard_name(f) \o "\n"
    \o "#define " \o guard_name(f) \o "\n\n"
    \o Join("\n", all_includes(f))
    \o Concat([i \in DOMAIN f.classes |-> class_generate_header_content(classes[f.classes[i]])])
    \o Concat(f.extra_header_code)
    \o "\n\n"
    \o Concat([i \in DOMAIN f.structs |-> struct_generate_header_content(structs[f.structs[i]])])
    \o "#endif // " \o guard_name(f)

\* CppHeaderAndSource.generate_header_content (the returned text)
file_generate_header_content(f) ==
    "#ifndef " \o guard_name(f) \o "\n"
    \o "#define " \o guard_name(f) \o "\n\n"
    \o Join("\n", all_includes(f))
    \o Concat([i \in DOMAIN f.structs |-> struct_generate_header_content(structs[f.structs[i]])])
    \o Concat(f.extra_header_code)
    \o "\n\n"
    \o Concat([i \in DOMAIN f.classes |-> class_generate_header_content(classes[f.classes[i]])])
    \o "#endif // " \o guard_name(f)

\* CppHeaderAndSource.generate_source_content
file_generate_source_content(f) ==
    "#include \"" \o Str(f.name) \o ".hpp\"\n\n"
    \o Concat([i \in DOMAIN f.structs |-> struct_generate_source_content(structs[f.structs[i]])])
    \o Concat([i \in DOMAIN f.classes |-> class_generate_source_content(classes[f.classes[i]])])

-----------------------------------------------------------------------------
(* Operations.  An argument set names the values the callers of a           *)
(* specification pass.  A method argument `a` carries the constructor       *)
(* arguments of CppMethod; a.has_qualifiers tells whether the call passes   *)
(* `qualifiers` (a list object of the caller's, new in the heap) or leaves  *)
(* it to the default.                                                       *)

\* An add or append: the texts rendered before it are no longer compared
Invalidate == header_calls' = 0 /\ source_calls' = 0
                /\ header_out' = "" /\ source_out' = ""

RenderIdle == UNCHANGED <<header_out, source_out, header_calls, source_calls>>

SnakeIdle == UNCHANGED <<camel_str, snake_str, returned>>

\* The heap after the caller's list object, if any, is created
qlists_with(a) == IF a.has_qualifiers THEN Append(qlists, a.qualifiers) ELSE qlists

\* CppMethod(...) for the argument a
new_method(a) ==
    CppMethod(a.name, a.return_type, a.parameters, a.body, a.access_modifier,
              a.initializer_list, a.define_in_header,
              IF a.has_qualifiers THEN Len(qlists) + 1 ELSE DefaultQualifiers)

\* snake = camel_to_snake_case(camel_str)
CamelToSnakeCase ==
    /\ ~returned
    /\ snake_str' = camel_to_snake_case(camel_str)
    /\ returned' = TRUE
    /\ UNCHANGED <<camel_str, graph>>
    /\ RenderIdle

\* cls.add_member(CppMember(...))
ClassAddMember(Members) ==
    \E c \in DOMAIN classes, member \in Members :
        /\ Len(classes[c].members) < MaxMembers
        /\ classes' = [classes EXCEPT ![c].members = Append(@, member)]
        /\ UNCHANGED <<qlists, structs, file>>
        /\ Invalidate /\ SnakeIdle

\* struct.add_member(CppMember(...))
StructAddMember(Members) ==
    \E s \in DOMAIN structs, member \in Members :
        /\ Len(structs[s].members) < MaxMembers
        /\ structs' = [structs EXCEPT ![s].members = Append(@, member)]
        /\ UNCHANGED <<qlists, classes, file>>
        /\ Invalidate /\ SnakeIdle

\* cls.add_method(CppMethod(...))
ClassAddMethod(Args) ==
    \E c \in DOMAIN classes, a \in Args :
        /\ Len(classes[c].methods) < MaxMethods
        /\ qlists' = qlists_with(a)
        /\ classes' = [classes EXCEPT ![c].methods = Append(@, new_method(a))]
        /\ UNCHANGED <<structs, file>>
        /\ Invalidate /\ SnakeIdle

\* struct.add_method(CppMethod(...))
StructAddMethod(Args) ==
    \E s \in DOMAIN structs, a \in Args :
        /\ Len(structs[s].methods) < MaxMethods
        /\ qlists' = qlists_with(a)
        /\ structs' = [structs EXCEPT ![s].methods = Append(@, new_method(a))]
        /\ UNCHANGED <<classes, file>>
        /\ Invalidate /\ SnakeIdle

\* The method CppClass.add_constructor builds: access_modifier,
\* define_in_header and qualifiers are left to their defaults.
constructor_method(cls, parameters, initializer_list, body) ==
    CppMethod(cls.name, "", parameters, body, "public", initializer_list,
              FALSE, DefaultQualifiers)

\* cls.add_constructor(parameters, initializer_list, body)
AddConstructor(Args) ==
    \E c \in DOMAIN classes, a \in Args :
        /\ Len(classes[c].methods) < MaxMethods
        /\ classes' = [classes EXCEPT ![c].methods =
               Append(@, constructor_method(classes[c], a.parameters,
                                            a.initializer_list, a.body))]
        /\ UNCHANGED <<qlists, structs, file>>
        /\ Invalidate /\ SnakeIdle

\* cls.methods[i].qualifiers.append(token): the list object the method
\* refers to grows in place.
ClassMethodAppendQualifier(Tokens) ==
    \E c \in DOMAIN classes, token \in Tokens :
        \E i \in DOMAIN classes[c].methods :
            LET q == classes[c].methods[i].qualifiers
            IN  /\ Len(qlists[q]) < MaxQuals
                /\ qlists' = [qlists EXCEPT ![q] = Append(@, token)]
                /\ UNCHANGED <<structs, classes, file>>
                /\ Invalidate /\ SnakeIdle

\* cls.add_include(include)
ClassAddInclude(IncludeOf) ==
    \E c \in DOMAIN classes :
        /\ Len(classes[c].includes) < MaxIncludes
        /\ classes' = [classes EXCEPT ![c].includes = Append(@, IncludeOf[c])]
        /\ UNCHANGED <<qlists, structs, file>>
        /\ Invalidate /\ SnakeIdle

\* file.add_include(include)
FileAddInclude(Includes) ==
    \E include \in Includes :
        /\ Len(file.includes) < MaxIncludes
        /\ file' = [file EXCEPT !.includes = Append(@, include)]
        /\ UNCHANGED <<qlists, structs, classes>>
        /\ Invalidate /\ SnakeIdle

\* file.add_extra_header_code(extra_header_code)
FileAddExtraHeaderCode(Blocks) ==
    \E extra_header_code \in Blocks :
        /\ Len(file.extra_header_code) < MaxIncludes
        /\ file' = [file EXCEPT !.extra_header_code = Append(@, extra_header_code)]
        /\ UNCHANGED <<qlists, structs, classes>>
        /\ Invalidate /\ SnakeIdle

\* file.add_struct(struct), for a struct the file does not hold yet
FileAddStruct ==
    \E s \in DOMAIN structs :
        /\ \A i \in DOMAIN file.structs : file.structs[i] # s
        /\ file' = [file EXCEPT !.structs = Append(@, s)]
        /\ UNCHANGED <<qlists, structs, classes>>
        /\ Invalidate /\ SnakeIdle

\* file.add_class(cls), for a class the file does not hold yet
FileAddClass ==
    \E c \in DOMAIN classes :
        /\ \A i \in DOMAIN file.classes : file.classes[i] # c
        /\ file' = [file EXCEPT !.classes = Append(@, c)]
        /\ UNCHANGED <<qlists, structs, classes>>
        /\ Invalidate /\ SnakeIdle

\* header_out = file.generate_header_content()
GenerateHeaderContent ==
    /\ header_calls < MaxCalls
    /\ header_out' = file_generate_header_content(file)
    /\ header_calls' = header_calls + 1
    /\ file' = [file EXCEPT !.includes = self_includes_after_header(file)]
    /\ UNCHANGED <<qlists, structs, classes, source_out, source_calls>>
    /\ SnakeIdle

\* source_out = file.generate_source_content()
GenerateSourceContent ==
    /\ source_calls < MaxCalls
    /\ source_out' = file_generate_source_content(file)
    /\ source_calls' = source_calls + 1
    /\ UNCHANGED <<graph, header_out, header_calls>>
    /\ SnakeIdle


-----------------------------------------------------------------------------
(* Argument sets *)

MethodArg(name, return_type, parameters, body, access_modifier, initializer_list, define_in_header, has_qualifiers, qualifiers) ==
    [name |-> name, return_type |-> return_type, parameters |-> parameters,
     body |-> body, access_modifier |-> access_modifier,
     initializer_list |-> initializer_list,
     define_in_header |-> define_in_header,
     has_qualifiers |-> has_qualifiers, qualifiers |-> qualifiers]

\* Methods that differ in everything declaration and get_definition branch on
SignatureArgs ==
    {MethodArg("get", rt, "int x", "return 0;", "public", il, dih, hq, q) :
        rt \in {"", "int"}, il \in {"", "x(x)"}, dih \in BOOLEAN,
        hq \in {TRUE}, q \in {<<>>, <<"noexcept">>}}
    \cup
    {MethodArg("get", rt, "int x", "return 0;", "public", il, dih, FALSE, <<>>) :
        rt \in {"", "int"}, il \in {"", "x(x)"}, dih \in BOOLEAN}

\* Methods that differ in name, access and placement
PlacementArgs ==
    {MethodArg(n, "int", "", "return 0;", am, "", dih, FALSE, <<>>) :
        n \in {"f", "g"}, am \in {"public", "private", "protected"},
        dih \in BOOLEAN}

ConstructorArgs ==
    {[parameters |-> "int x", initializer_list |-> il, body |-> ""] :
        il \in {"", "x(x)"}}

MemberArgs == {CppMember("x", "int", ""), CppMember("y", "float", "1.0f")}

QualifierTokens == {"const"}

GlobalIncludes == {"#include <vector>\n"}

ExtraBlocks == {"using Id = int;\n"}

\* The include line the callers add to the class classes[c]
ClassIncludeOf == <<"#include <iostream>\n", "#include <string>\n">>

SnakeAlphabet == {"A", "B", "a", "b", "1", "2"}

SnakeInputs == UNION {[1..n -> SnakeAlphabet] : n \in 0..MaxLen}

HTTPServer2Config ==
    <<"H","T","T","P","S","e","r","v","e","r","2","C","o","n","f","i","g">>

example_file == <<"e","x","a","m","p","l","e","_","f","i","l","e">>

MyFile2 == <<"M","y","F","i","l","e","2">>

FileNames == {example_file, MyFile2}

-----------------------------------------------------------------------------
(* Specifications *)

NoRender ==
    /\ header_out = "" /\ source_out = ""
    /\ header_calls = 0 /\ source_calls = 0

NoSnake == camel_str = <<>> /\ snake_str = <<>> /\ returned = FALSE

\* camel_to_snake_case applied to one identifier
InitSnake ==
    /\ camel_str \in SnakeInputs \cup {HTTPServer2Config} \cup FileNames
    /\ snake_str = <<>>
    /\ returned = FALSE
    /\ qlists = << <<>> >>
    /\ structs = <<>>
    /\ classes = <<>>
    /\ file = CppHeaderAndSource(example_file)
    /\ NoRender

NextSnake == CamelToSnakeCase

SpecSnake == InitSnake /\ [][NextSnake]_vars

\* One class whose methods are built with and without a qualifiers argument
InitMethod ==
    /\ NoSnake
    /\ qlists = << <<>> >>
    /\ structs = <<>>
    /\ classes = <<CppClass("ExampleClass")>>
    /\ file = CppHeaderAndSource(example_file)
    /\ NoRender

NextMethod ==
    \/ ClassAddMethod(SignatureArgs)
    \/ AddConstructor(ConstructorArgs)
    \/ ClassMethodAppendQualifier(QualifierTokens)

SpecMethod == InitMethod /\ [][NextMethod]_vars

\* One class or one struct, filled by add_member, add_method, add_constructor
InitClass ==
    /\ NoSnake
    /\ qlists = << <<>> >>
    /\ \/ structs = <<>> /\ classes = <<CppClass("ExampleClass")>>
       \/ structs = <<CppStruct("ExampleStruct")>> /\ classes = <<>>
    /\ file = CppHeaderAndSource(example_file)
    /\ NoRender

NextClass ==
    \/ ClassAddMember(MemberArgs)
    \/ StructAddMember(MemberArgs)
    \/ ClassAddMethod(PlacementArgs)
    \/ StructAddMethod(PlacementArgs)
    \/ AddConstructor(ConstructorArgs)

SpecClass == InitClass /\ [][NextClass]_vars

\* Two structs and two classes as the add operations above leave them, and a
\* file pair that is filled and rendered
FileStructs ==
    << [name |-> "ExampleStruct",
        members |-> <<CppMember("w", "int", "")>>,
        methods |-> <<CppMethod("add", "int", "", "return w;", "public", "", FALSE, DefaultQualifiers)>>],
       [name |-> "Pair",
        members |-> <<>>,
        methods |-> <<CppMethod("size", "int", "", "return 2;", "private", "", TRUE, DefaultQualifiers)>>] >>

FileClasses ==
    << [name |-> "ExampleClass",
        members |-> <<CppMember("x", "int", "")>>,
        methods |-> <<CppMethod("ExampleClass", "", "int x", "", "public", "x(x)", FALSE, DefaultQualifiers)>>,
        includes |-> <<>>],
       [name |-> "Other",
        members |-> <<>>,
        methods |-> <<CppMethod("run", "void", "", "return;", "private", "", FALSE, DefaultQualifiers)>>,
        includes |-> <<>>] >>

InitFile ==
    /\ NoSnake
    /\ qlists = << <<>> >>
    /\ structs = FileStructs
    /\ classes = FileClasses
    /\ file \in {CppHeaderAndSource(n) : n \in FileNames}
    /\ NoRender

NextFile ==
    \/ FileAddInclude(GlobalIncludes)
    \/ FileAddExtraHeaderCode(ExtraBlocks)
    \/ FileAddStruct
    \/ FileAddClass
    \/ ClassAddInclude(ClassIncludeOf)
    \/ GenerateHeaderContent
    \/ GenerateSourceContent

SpecFile == InitFile /\ [][NextFile]_vars

-----------------------------------------------------------------------------
(* Vocabulary of the properties *)

\* Every class and struct of the heaps, as (kind, name, members, methods)
Aggregates ==
    {[is_class |-> TRUE, name |-> classes[c].name,
      members |-> classes[c].members, methods |-> classes[c].methods] :
        c \in DOMAIN classes}
    \cup
    {[is_class |-> FALSE, name |-> structs[s].name,
      members |-> structs[s].members, methods |-> structs[s].methods] :
        s \in DOMAIN structs}

IsPublic(method) == method.access_modifier = "public"
IsPrivate(method) == method.access_modifier = "private"
IsOutOfLine(method) == method.define_in_header = FALSE

QualifiersText(method) ==
    IF Qualifiers(method) = <<>> THEN "" ELSE " " \o Join(" ", Qualifiers(method))

SpaceAfter(return_type) == IF return_type = "" THEN "" ELSE " "

\* The definition text as it is emitted, with the name written as shown_name
DefinitionText(method, shown_name) ==
    method.return_type \o SpaceAfter(method.return_type) \o shown_name
    \o "(" \o method.parameters \o ")"
    \o (IF method.initializer_list = "" THEN "" ELSE " : " \o method.initializer_list)
    \o QualifiersText(method)
    \o " {\n    " \o method.body \o "\n}"

\* What a method contributes to its section of the header
HeaderEntry(method) ==
    IF method.define_in_header
    THEN DefinitionText(method, method.name)
    ELSE declaration(method)

HeaderEntries(methods) == [i \in DOMAIN methods |-> HeaderEntry(methods[i])]

-----------------------------------------------------------------------------
(* C1: get_definition yields the prefix of the declaration,                 *)
(* <return_type> <name>(<parameters>)<qualifiers> with the name qualified   *)
(* by the class when define_in_header is false, then " : <initializer      *)
(* list>" when that list is not empty, then a space and the body in braces; *)
(* so "(<parameters>)<qualifiers>" of the declaration is contiguous in it.  *)
C1_DefinitionExtendsDeclarationPrefix ==
    \A a \in Aggregates : \A i \in DOMAIN a.methods :
        LET method == a.methods[i]
            shown == IF method.define_in_header THEN method.name
                     ELSE a.name \o "::" \o method.name
        IN  get_definition(method, a.name) =
                method.return_type \o SpaceAfter(method.return_type) \o shown
                \o "(" \o method.parameters \o ")" \o QualifiersText(method)
                \o (IF method.initializer_list = "" THEN ""
                    ELSE " : " \o method.initializer_list)
                \o " {\n    " \o method.body \o "\n}"

-----------------------------------------------------------------------------
(* C2: every method whose out-of-line definition the source fragment of a   *)
(* class or struct holds has its declaration among the entries of the       *)
(* header fragment of that class or struct.                                 *)
C2_SourceDefinitionsDeclaredInHeader ==
    \A a \in Aggregates : \A i \in DOMAIN a.methods :
        LET method == a.methods[i]
            pp == get_public_and_private_methods_for_header(a.name, a.methods)
        IN  IsOutOfLine(method) =>
                \/ \E k \in DOMAIN pp[1] : pp[1][k] = declaration(method)
                \/ \E k \in DOMAIN pp[2] : pp[2][k] = declaration(method)

-----------------------------------------------------------------------------
(* C3: get_public_and_private_methods_for_header returns the entries of the *)
(* public methods and the entries of the private methods, each in the order *)
(* of the method list; an entry is the declaration, or the unqualified      *)
(* definition for a method defined in the header; methods of any other      *)
(* access are in neither; an empty method list gives two empty sequences.   *)
C3_PartitionByAccess ==
    \A a \in Aggregates :
        LET pp == get_public_and_private_methods_for_header(a.name, a.methods)
        IN  /\ Len(pp) = 2
            /\ pp[1] = HeaderEntries(SelectSeq(a.methods, IsPublic))
            /\ pp[2] = HeaderEntries(SelectSeq(a.methods, IsPrivate))
            /\ a.methods = <<>> => pp = << <<>>, <<>> >>

\* A struct or class with a public declaration, a private inline definition
\* and a method that is neither public nor private
C3_Witness ==
    \E a \in Aggregates :
        /\ Len(a.methods) = 3
        /\ IsPublic(a.methods[1]) /\ IsOutOfLine(a.methods[1])
        /\ ~IsPublic(a.methods[2]) /\ ~IsPrivate(a.methods[2])
        /\ IsPrivate(a.methods[3]) /\ ~IsOutOfLine(a.methods[3])
        /\ get_public_and_private_methods_for_header(a.name, a.methods)
               = << <<"int f();">>, <<"int g() {\n    return 0;\n}">> >>

-----------------------------------------------------------------------------
-----------------------------------------------------------------------------
(* C5: the source fragment holds the definition, qualified by the class     *)
(* name, of exactly the methods not defined in the header, in the order of  *)
(* the method list whatever their access, separated by a blank line.        *)
C5_SourceFragment ==
    \A a \in Aggregates :
        LET kept == SelectSeq(a.methods, IsOutOfLine)
        IN  generate_source_content_for_class_or_struct(a.name, a.methods)
            = Join("\n\n", [i \in DOMAIN kept |->
                     DefinitionText(kept[i], a.name \o "::" \o kept[i].name)])

\* A class with a private out-of-line method, an inline method and a method
\* of another access that is out of line
C5_Witness ==
    \E a \in Aggregates :
        /\ a.is_class
        /\ Len(a.methods) = 3
        /\ IsPrivate(a.methods[1]) /\ IsOutOfLine(a.methods[1])
        /\ ~IsOutOfLine(a.methods[2])
        /\ ~IsPublic(a.methods[3]) /\ ~IsPrivate(a.methods[3])
        /\ generate_source_content_for_class_or_struct(a.name, a.methods)
           = "int ExampleClass::g() {\n    return 0;\n}\n\nint ExampleClass::f() {\n    return 0;\n}"


-----------------------------------------------------------------------------
(* C6: generate_header_content of the file pair emits "#ifndef G" and       *)
(* "#define G", G being the snake_case form of the file name in upper case  *)
(* followed by _HPP; the global includes and then the includes of every     *)
(* class, in insertion order; the header fragment of every struct; every    *)
(* extra header code block; a spacer; the header fragment of every class;   *)
(* and "#endif // G".                                                       *)
ExpectedGuard == IF file.name = MyFile2 THEN "MY_FILE_2_HPP" ELSE "EXAMPLE_FILE_HPP"

RECURSIVE IncludesOfClasses(_)
IncludesOfClasses(refs) ==
    IF refs = <<>> THEN <<>>
    ELSE classes[Head(refs)].includes \o IncludesOfClasses(Tail(refs))

RECURSIVE StructFragments(_)
StructFragments(refs) ==
    IF refs = <<>> THEN ""
    ELSE struct_generate_header_content(structs[Head(refs)])
         \o StructFragments(Tail(refs))

RECURSIVE ClassFragments(_)
ClassFragments(refs) ==
    IF refs = <<>> THEN ""
    ELSE class_generate_header_content(classes[Head(refs)])
         \o ClassFragments(Tail(refs))

-----------------------------------------------------------------------------
(* C7: a render call changes no field of the object graph, and a render     *)
(* call that follows another one with no add in between returns the same   *)
(* text.                                                                    *)
C7_RenderIsPureAndRepeatable ==
    [][ /\ (header_calls' > header_calls \/ source_calls' > source_calls)
            => graph' = graph
        /\ (header_calls > 0 /\ header_calls' > header_calls)
            => header_out' = header_out
        /\ (source_calls > 0 /\ source_calls' > source_calls)
            => source_out' = source_out ]_vars

\* Header and source both rendered twice in a row, for a file with a global
\* include and a class that has an include of its own
C7_Witness ==
    /\ header_calls = 2
    /\ source_calls = 2
    /\ file.includes # <<>>
    /\ \E i \in DOMAIN file.classes : classes[file.classes[i]].includes # <<>>
    /\ file.structs # <<>>

-----------------------------------------------------------------------------
(* C8: for an identifier of letters and digits only (the empty one too),    *)
(* the result of camel_to_snake_case has no upper-case letter, no two       *)
(* underscores in a row, and no underscore first or last.                   *)
LettersAndDigits(s) ==
    \A i \in DOMAIN s : IsUpper(s[i]) \/ IsLower(s[i]) \/ IsDigit(s[i])

C8_SnakeCaseShape ==
    (returned /\ LettersAndDigits(camel_str)) =>
        /\ \A i \in DOMAIN snake_str : ~IsUpper(snake_str[i])
        /\ \A i \in 1..(Len(snake_str) - 1) :
               ~(snake_str[i] = "_" /\ snake_str[i + 1] = "_")
        /\ snake_str # <<>> =>
               snake_str[1] # "_" /\ snake_str[Len(snake_str)] # "_"
        /\ camel_str = <<>> => snake_str = <<>>

\* A digit followed by an upper-case letter: both substitutions insert an
\* underscore at the same place
C8_Witness ==
    /\ returned
    /\ camel_str = <<"a", "1", "B">>
    /\ snake_str = <<"a", "_", "1", "_", "b">>

-----------------------------------------------------------------------------
(* C9, as stated: camel_to_snake_case("HTTPServer2Config") returns          *)
(* "http_server2_config".                                                   *)
C9_AsStated ==
    (returned /\ camel_str = HTTPServer2Config) =>
        snake_str = <<"h","t","t","p","_","s","e","r","v","e","r","2","_","c","o","n","f","i","g">>

(* C9, amended: camel_to_snake_case("HTTPServer2Config") returns            *)
(* "h_t_t_p_server_2_config": an underscore precedes every upper-case       *)
(* letter but the first, and stands on both sides of the digit.             *)
C9_Amended ==
    (returned /\ camel_str = HTTPServer2Config) =>
        snake_str = <<"h","_","t","_","t","_","p","_","s","e","r","v","e","r","_","2","_","c","o","n","f","i","g">>

C9_Witness ==
    /\ returned
    /\ camel_str = HTTPServer2Config
    /\ Len(snake_str) = 23

-----------------------------------------------------------------------------
(* C10: of two distinct methods that were both built without a qualifiers  *)
(* argument (a constructor of add_constructor included), appending a token  *)
(* to the qualifiers of one leaves the qualifiers, the declaration and the  *)
(* definition of the other as they were.                                    *)
BuiltWithoutQualifiers(method) == method.qualifiers = DefaultQualifiers

\* C10: a step that changes the qualifiers of one such method leaves every
\* other such method of the class as it was
C10_MethodsAreIndependent ==
    [][ \A a \in Aggregates : \A i, j \in DOMAIN a.methods :
            ( /\ i # j
              /\ BuiltWithoutQualifiers(a.methods[i])
              /\ BuiltWithoutQualifiers(a.methods[j])
              /\ Qualifiers(a.methods[i])' # Qualifiers(a.methods[i]) )
            => /\ Qualifiers(a.methods[j])' = Qualifiers(a.methods[j])
               /\ declaration(a.methods[j])' = declaration(a.methods[j])
               /\ get_definition(a.methods[j], a.name)'
                      = get_definition(a.methods[j], a.name) ]_vars

=============================================================================
